---- MODULE Spec2Model ----
(***************************************************************************)
(* Model of the call-record import handlers of mysql-hyperdrive-template.  *)
(*                                                                         *)
(* src/unnamed/part_000 holds two variants of importData: the structured   *)
(* (JSON) handler, lines 36-161, and the spreadsheet handler, lines        *)
(* 199-363.  Both validate, open a MySQL connection, begin a transaction,  *)
(* write the rows in batches of batchSize, commit, insert one row into     *)
(* import_logs and respond.  Every await on the store is one step of the   *)
(* model and can succeed or throw.                                         *)
(*                                                                         *)
(* JavaScript values are records [t |-> type, v |-> text]: the type tag    *)
(* keeps a number, a string, undefined and SQL NULL apart.  The localized  *)
(* spreadsheet headers are written in pinyin, the module being ASCII; the  *)
(* comment at localizedFields gives the source text.                       *)
(***************************************************************************)
EXTENDS Integers, Sequences, FiniteSets, Bags, TLC

-----------------------------------------------------------------------------
(* JavaScript and SQL values *)

Str(s) == [t |-> "string", v |-> s]
Num(s) == [t |-> "number", v |-> s]
Undefined == [t |-> "undefined", v |-> ""]
Null == [t |-> "null", v |-> ""]

\* value || "" keeps a truthy value: undefined, "" and 0 are falsy
Truthy(x) ==
    ~ \/ x.t = "undefined"
      \/ x.t = "null"
      \/ (x.t = "string" /\ x.v = "")
      \/ (x.t = "number" /\ x.v = "0")

\* String(x)
JSString(x) ==
    CASE x.t = "undefined" -> Str("undefined")
      [] x.t = "null" -> Str("null")
      [] OTHER -> Str(x.v)

\* String(value || "") of the spreadsheet projection
CellToString(value) == IF Truthy(value) THEN JSString(value) ELSE Str("")

\* connection.query formats its parameters client side: undefined and null
\* are both written as NULL, every other value is sent as it is
SqlEscape(x) == IF x.t = "undefined" THEN Null ELSE x

-----------------------------------------------------------------------------
(* Field lists *)

\* requiredFields of the structured handler, in the order the check walks
requiredFields ==
    << "call_id", "caller_number", "callee_number", "call_type", "call_time",
       "agent_call_time", "department", "agent_name", "agent_id",
       "call_status", "skill_group", "end_node", "key_track", "province",
       "city", "pbx_name" >>

\* the column list of the INSERT statement and of the values tuple
columns == requiredFields

Fields == {requiredFields[k] : k \in 1..Len(requiredFields)}

\* requiredFields of the spreadsheet handler, in the order the check walks:
\* zhujiao_haoma = caller number, beijiao_haoma = callee number,
\* hujiao_leixing = call type, hujiao_shijian = call time,
\* zuoxi_tonghua_shijian = agent call time, bumen = department,
\* jieting_zuoxi = answering agent, gonghao = agent id,
\* jieting_zhuangtai = call status, huru_jinengzu = inbound skill group,
\* zhongjie_jiedian = end node, anjian_guiji = key track, sheng = province,
\* shi = city, tonghua_ID = call id, PBX_mingcheng = PBX name
localizedFields ==
    << "zhujiao_haoma", "beijiao_haoma", "hujiao_leixing", "hujiao_shijian",
       "zuoxi_tonghua_shijian", "bumen", "jieting_zuoxi", "gonghao",
       "jieting_zhuangtai", "huru_jinengzu", "zhongjie_jiedian",
       "anjian_guiji", "sheng", "shi", "tonghua_ID", "PBX_mingcheng" >>

\* fieldMapping: localized header -> canonical field
fieldMapping ==
    [ zhujiao_haoma |-> "caller_number", beijiao_haoma |-> "callee_number",
      hujiao_leixing |-> "call_type", hujiao_shijian |-> "call_time",
      zuoxi_tonghua_shijian |-> "agent_call_time", bumen |-> "department",
      jieting_zuoxi |-> "agent_name", gonghao |-> "agent_id",
      jieting_zhuangtai |-> "call_status", huru_jinengzu |-> "skill_group",
      zhongjie_jiedian |-> "end_node", anjian_guiji |-> "key_track",
      sheng |-> "province", shi |-> "city", tonghua_ID |-> "call_id",
      PBX_mingcheng |-> "pbx_name" ]

\* batchSize of both handlers
batchSize == 1000

Min(a, b) == IF a < b THEN a ELSE b

\* row.field: undefined when the object has no such key
Get(row, f) == IF f \in DOMAIN row THEN row[f] ELSE Undefined

-----------------------------------------------------------------------------
(* Structured handler: the required-field check, lines 66-72 *)

\* the rows that lack some required field
OffendingRows(rs) ==
    {j \in 1..Len(rs) : \E k \in 1..Len(requiredFields) : requiredFields[k] \notin DOMAIN rs[j]}

\* the mutant of FirstMissingField: the last missing field is reported
LastMissingField(row) ==
    LET miss == {k \in 1..Len(requiredFields) : requiredFields[k] \notin DOMAIN row}
    IN  requiredFields[CHOOSE k \in miss : \A m \in miss : m <= k]

\* the first field, in requiredFields order, that is not a key of the row
FirstMissingField(row) ==
    LET miss == {k \in 1..Len(requiredFields) : requiredFields[k] \notin DOMAIN row}
    IN  requiredFields[CHOOSE k \in miss : \A m \in miss : k <= m]

\* the field the nested loops return on, "" when they run to the end
MissingRequiredField(rs) ==
    LET bad == OffendingRows(rs)
    IN  IF bad = {} THEN ""
        ELSE FirstMissingField(rs[CHOOSE j \in bad : \A m \in bad : j <= m])

-----------------------------------------------------------------------------
(* Spreadsheet handler: header check and projection, lines 236-274 *)

\* an empty cell of a sheet_to_json row: a hole of the array
Hole == [t |-> "hole", v |-> ""]

\* headers.includes(field)
HeadersInclude(headers, field) ==
    \E k \in 1..Len(headers) : headers[k] = Str(field)

\* the mutant of MissingHeader: the canonical name of the field is reported
\* in place of the localized header
MissingHeaderCanonical(headers) ==
    LET miss == {k \in 1..Len(localizedFields) : ~HeadersInclude(headers, localizedFields[k])}
    IN  IF miss = {} THEN ""
        ELSE fieldMapping[localizedFields[CHOOSE k \in miss : \A m \in miss : k <= m]]

\* the first localized field the header row lacks, "" when it lacks none
MissingHeader(headers) ==
    LET miss == {k \in 1..Len(localizedFields) : ~HeadersInclude(headers, localizedFields[k])}
    IN  IF miss = {} THEN ""
        ELSE localizedFields[CHOOSE k \in miss : \A m \in miss : k <= m]

\* the cells of a data row that forEach visits and the mapping sends to f
CellsFor(headers, row, f) ==
    {k \in 1..Len(row) :
        /\ row[k].t # "hole"
        /\ k <= Len(headers)
        /\ headers[k].t = "string"
        /\ headers[k].v \in DOMAIN fieldMapping
        /\ fieldMapping[headers[k].v] = f}

\* rowData of one data row: a key for every mapped cell visited, the last
\* cell winning when two columns map to the same field
ProjectRow(headers, row) ==
    LET keys == {f \in Fields : CellsFor(headers, row, f) # {}}
    IN  [f \in keys |->
            LET ks == CellsFor(headers, row, f)
            IN  CellToString(row[CHOOSE k \in ks : \A m \in ks : m <= k])]

\* jsonData.slice(1).map(...)
ProjectRows(jsonData) ==
    [j \in 1..(Len(jsonData) - 1) |-> ProjectRow(jsonData[1], jsonData[j + 1])]

-----------------------------------------------------------------------------
(* Batching and the INSERT ... ON DUPLICATE KEY UPDATE statement *)

\* the mutant of Batch: rows.slice(i, batchSize)
BatchWrongEnd(rs, i) == SubSeq(rs, i + 1, Min(batchSize, Len(rs)))

\* rows.slice(i, i + batchSize)
Batch(rs, i) == SubSeq(rs, i + 1, Min(i + batchSize, Len(rs)))

\* the values tuple of one row, in column order
Values(row) == [k \in 1..Len(columns) |-> Get(row, columns[k])]

\* batch.map(row => [...])
BatchValues(batch) == [k \in 1..Len(batch) |-> Values(batch[k])]

\* the table row one values tuple is written as
InsertRow(vals) ==
    [f \in Fields |-> SqlEscape(vals[CHOOSE k \in 1..Len(columns) : columns[k] = f])]

\* call_id is the unique key of mxbc_call; NULL never collides
Collides(r, new) == new.call_id.t # "null" /\ r.call_id = new.call_id

\* ON DUPLICATE KEY UPDATE call_id = VALUES(call_id): only call_id is assigned
OnDuplicateKeyUpdate(r, new) == [r EXCEPT !.call_id = new.call_id]

\* the mutant of InsertedIndexes: no duplicate is detected, every row is
\* inserted
InsertedIndexesNoKey(tb, vs) == 1..Len(vs)

\* the rows of the statement that are inserted: those whose key collides
\* neither with a row of the table nor with an earlier row of the statement
InsertedIndexes(tb, vs) ==
    {k \in 1..Len(vs) :
        LET new == InsertRow(vs[k])
        IN  /\ \A n \in 1..Len(tb) : ~Collides(tb[n], new)
            /\ \A j \in 1..(k - 1) : ~Collides(InsertRow(vs[j]), new)}

\* a row of the table after the duplicates of the statement have updated it
AfterUpdates(r, vs) ==
    LET hits == {k \in 1..Len(vs) : Collides(r, InsertRow(vs[k]))}
    IN  IF hits = {} THEN r
        ELSE OnDuplicateKeyUpdate(r, InsertRow(vs[CHOOSE k \in hits : \A m \in hits : m <= k]))

\* the table after one statement: rows are taken in order, a colliding row
\* updates the row it collides with, any other row is appended
Upsert(tb, vs) ==
    LET ins == InsertedIndexes(tb, vs)
        nth(m) == CHOOSE k \in ins : Cardinality({j \in ins : j <= k}) = m
        added == [m \in 1..Cardinality(ins) |-> AfterUpdates(InsertRow(vs[nth(m)]), vs)]
    IN  [n \in 1..Len(tb) |-> AfterUpdates(tb[n], vs)] \o added

-----------------------------------------------------------------------------
(* Responses, errors and audit entries *)

Response(status, text) == [status |-> status, body |-> text]

\* no response computed yet
NoResponse == Response(0, "")

\* the outer catch of importData
InternalServerError == Response(500, "Internal Server Error")

\* the inner try block left by an exception instead of a return
Thrown == Response(-1, "throw")

\* the success entry: INSERT INTO import_logs (table_name, rows_imported, status)
SuccessLog(n) ==
    [table_name |-> "mxbc_call", rows_imported |-> n, status |-> "success",
     error_message |-> Null]

\* the failure entry: (table_name, rows_imported, status, error_message)
FailedLog(err) ==
    [table_name |-> "mxbc_call", rows_imported |-> 0, status |-> "failed",
     error_message |-> Str(err)]

-----------------------------------------------------------------------------
(* Bounds of the model and the requests it draws *)

\* import requests handled one after the other
MaxAttempts == 2

\* rows of a small structured request
MaxRows == 2

\* chunks of the longest request
MaxChunks == 3

\* a structured row with every field: call_id c, every other field v
JsonRow(c, v) == [f \in Fields |-> IF f = "call_id" THEN Str(c) ELSE Str(v)]

\* a row without the fields of S
Without(row, S) == [f \in (DOMAIN row) \ S |-> row[f]]

JsonRowUniverse ==
    { JsonRow("1", "a"), JsonRow("1", "b"),
      Without(JsonRow("1", "a"), {"callee_number"}),
      Without(JsonRow("2", "a"), {"call_id", "province"}) }

SeqsUpTo(S, n) == UNION {[1..m -> S] : m \in 0..n}

\* the sizes at which the number of chunks changes
LargeSizes ==
    {c * batchSize : c \in 1..(MaxChunks - 1)}
    \cup {c * batchSize + 1 : c \in 1..(MaxChunks - 1)}

\* a long request: the rows of chunk c carry call_id c
LargeJsonRows(n) ==
    [k \in 1..n |-> JsonRow(ToString(((k - 1) \div batchSize) + 1), "a")]

\* the body of a structured request: request.json() and body.rows
JsonRequest(parse, rs) == [endpoint |-> "json", parse |-> parse, rows |-> rs]

JsonRequests ==
    {JsonRequest("throws", <<>>), JsonRequest("notArray", <<>>)}
    \cup {JsonRequest("ok", rs) : rs \in SeqsUpTo(JsonRowUniverse, MaxRows)}

FullHeader == [k \in 1..Len(localizedFields) |-> Str(localizedFields[k])]

\* a data row with every cell: the tonghua_ID cell c, every other cell v
SheetRow(c, v) ==
    [k \in 1..Len(localizedFields) |->
        IF localizedFields[k] = "tonghua_ID" THEN Str(c) ELSE Str(v)]

HeaderWithout(S) ==
    [k \in 1..Len(localizedFields) |->
        IF localizedFields[k] \in S THEN Hole ELSE Str(localizedFields[k])]

SmallSheets ==
    { <<>>,
      <<FullHeader>>,
      <<HeaderWithout({"sheng"}), SheetRow("1", "a")>>,
      <<HeaderWithout({"beijiao_haoma", "sheng"})>>,
      <<FullHeader, SheetRow("1", "a")>>,
      <<FullHeader, SheetRow("1", "b"), SheetRow("2", "a")>>,
      <<FullHeader, SubSeq(SheetRow("2", "a"), 1, 3)>>,
      <<FullHeader, [SheetRow("2", "a") EXCEPT ![13] = Hole]>>,
      <<FullHeader, [SheetRow("2", "b") EXCEPT ![4] = Num("0"), ![5] = Num("7")]>>,
      <<FullHeader \o <<Str("beizhu")>>, SheetRow("1", "b") \o <<Str("x")>> >> }

LargeSheet(n) ==
    [j \in 1..(n + 1) |->
        IF j = 1 THEN FullHeader
        ELSE SheetRow(ToString(((j - 2) \div batchSize) + 1), "a")]

\* an upload: formData(), the file and the rows sheet_to_json reads from it
SheetRequest(parse, sh) == [endpoint |-> "sheet", parse |-> parse, jsonData |-> sh]

SheetRequests ==
    {SheetRequest("throws", <<>>), SheetRequest("noFile", <<>>)}
    \cup {SheetRequest("ok", sh) : sh \in SmallSheets}

\* a request whose path or method is not POST /api/import
OtherRequest == [endpoint |-> "none", parse |-> "ok"]

Requests == JsonRequests \cup SheetRequests \cup {OtherRequest}

\* the requests of a whole number of chunks and of one row more, the longest
\* one as a sheet too, and the shortest request of either handler
LargeRequests ==
    {JsonRequest("ok", LargeJsonRows(n)) : n \in LargeSizes}
    \cup {SheetRequest("ok", LargeSheet((MaxChunks - 1) * batchSize + 1))}
    \cup {JsonRequest("ok", <<JsonRow("1", "a")>>), SheetRequest("ok", <<FullHeader>>)}

\* what mxbc_call holds before the first request: nothing, or the row an
\* earlier import of call_id 1 committed
StoredRow(row) == InsertRow(Values(row))

TablesBefore ==
    { <<>>, <<StoredRow(JsonRow("1", "b"))>> }

\* the fire-and-acknowledge requests and the minutes a run covers
MaxFaRequests == 2
MaxFaMinutes == 6

\* the request keys callers send
FaKeys == {"abc", "xyz"}

\* the window a marked key stays in the idempotency cache, in minutes
TTL == 5

\* a key the cache does not hold
Unmarked == -1

\* a request that has not arrived
NoFaRequest ==
    [stage |-> "none", route |-> TRUE, key |-> "", overlaps |-> FALSE, at |-> 0,
     fresh |-> FALSE, response |-> NoResponse, persisted |-> 0]

-----------------------------------------------------------------------------
(* index.ts: password hashes and tokens *)

\* the half hours a run covers
MaxHalfHours == 3

HalfHour == 1800 * 1000

\* what callers submit; "" stands for a field that is missing or empty
Usernames == {"", "ann", "bob"}
Passwords == {"", "p", "q"}

\* env.JWT_SECRET and another secret
Secrets == <<"s1", "s2">>

\* the mutant of hashPassword: every password has the same digest
hashPasswordConstant(password) == "sha256()"

\* hashPassword: the hex digest, one per password
hashPassword(password) == "sha256(" \o password \o ")"

\* (byte) => byte.toString(16).padStart(2, "0"), joined
HexDigits ==
    << "0", "1", "2", "3", "4", "5", "6", "7", "8", "9", "a", "b", "c", "d", "e", "f" >>

ToHex(bytes) ==
    [k \in 1..(2 * Len(bytes)) |->
        HexDigits[(IF k % 2 = 1 THEN bytes[(k + 1) \div 2] \div 16
                                ELSE bytes[k \div 2] % 16) + 1]]

\* the base64 alphabet atob reads
Base64Alphabet ==
    << "A", "B", "C", "D", "E", "F", "G", "H", "I", "J", "K", "L", "M", "N", "O", "P",
       "Q", "R", "S", "T", "U", "V", "W", "X", "Y", "Z", "a", "b", "c", "d", "e", "f",
       "g", "h", "i", "j", "k", "l", "m", "n", "o", "p", "q", "r", "s", "t", "u", "v",
       "w", "x", "y", "z", "0", "1", "2", "3", "4", "5", "6", "7", "8", "9", "+", "/" >>

Base64Index(c) == (CHOOSE k \in 1..Len(Base64Alphabet) : Base64Alphabet[k] = c) - 1

\* atob throws on a character outside the alphabet and on a length of 4n + 1
AtobThrows(chars) ==
    \/ \E k \in 1..Len(chars) :
          \A m \in 1..Len(Base64Alphabet) : Base64Alphabet[m] # chars[k]
    \/ Len(chars) % 4 = 1

\* Uint8Array.from(atob(chars), (c) => c.charCodeAt(0)): six bits a character
Atob(chars) ==
    [n \in 1..((Len(chars) * 6) \div 8) |->
        LET q == (8 * (n - 1)) \div 6
            r == (8 * (n - 1)) % 6
            twelve == Base64Index(chars[q + 1]) * 64 + Base64Index(chars[q + 2])
        IN  (twelve \div (2 ^ (4 - r))) % 256]

\* the bytes of an HMAC-SHA-256
SignatureLength == 32

SecretCode(secret) == CHOOSE k \in 1..Len(Secrets) : Secrets[k] = secret

\* crypto.subtle.sign("HMAC", key, data): 32 bytes that differ when the
\* secret, the userId or the exp differ
Hmac(secret, input) ==
    [k \in 1..SignatureLength |->
        (k * (7 + SecretCode(secret)) + 13 * input.payload.json.userId
           + (input.payload.json.exp \div HalfHour)) % 256]

\* btoa(JSON.stringify(obj)) without "=" and with - and _ for + and /; JSON
\* of numbers has no byte that makes + or /, and atob reads unpadded text
base64UrlEncode(obj) == [base64url |-> TRUE, json |-> obj]

\* JSON.parse(atob(encoded))
ParseAtob(encoded) == encoded.json

\* generateJWT(payload, secret) when Date.now() is t: the signature in hex
generateJWT(payload, secret, t) ==
    LET encodedHeader == base64UrlEncode([alg |-> "HS256", typ |-> "JWT"])
        encodedPayload == base64UrlEncode([userId |-> payload.userId,
                                           exp |-> t + 3600 * 1000])
        signatureInput == [header |-> encodedHeader, payload |-> encodedPayload]
    IN  [header |-> encodedHeader, payload |-> encodedPayload,
         signature |-> ToHex(Hmac(secret, signatureInput))]

\* what verifyJWT returns or throws
Verified(outcome, payload) == [outcome |-> outcome, payload |-> payload]

NoPayload == [userId |-> 0, exp |-> 0]

\* verifyJWT(token, secret) when Date.now() is t: the signature read with atob
verifyJWT(token, secret, t) ==
    LET signatureInput == [header |-> token.header, payload |-> token.payload]
    IN  IF AtobThrows(token.signature)
          THEN Verified("InvalidCharacterError", NoPayload)
        ELSE IF Atob(token.signature) # Hmac(secret, signatureInput)
          THEN Verified("Invalid token", NoPayload)
        ELSE IF ParseAtob(token.payload).exp < t
          THEN Verified("Token expired", NoPayload)
        ELSE Verified("payload", ParseAtob(token.payload))

NoToken == generateJWT(NoPayload, Secrets[1], 0)

\* no token generated yet
NoVerification ==
    [payload |-> NoPayload, secret |-> "", token |-> NoToken, with |-> "", at |-> 0,
     result |-> Verified("none", NoPayload)]

\* a response of registerUser or loginUser and the token in its body
AuthResponse(status, text, token) == [status |-> status, body |-> text, token |-> token]

\* no call yet
NoCall ==
    [handler |-> "none", username |-> "", password |-> "", fails |-> "none",
     response |-> AuthResponse(0, "", NoToken)]

-----------------------------------------------------------------------------
(* State *)

VARIABLES
    pc,            \* where the handler is
    request,       \* the request being handled
    rows,          \* const rows
    i,             \* the loop index
    successCount,  \* let successCount
    error,         \* the error the inner catch holds, "" when none
    result,        \* what the inner try/catch returned or threw
    response,      \* the response the caller receives
    conn,          \* the connection: "none", "open", "closed", "broken"
    inTx,          \* a transaction is open on the connection
    txView,        \* mxbc_call as the open transaction sees it
    mxbc_call,     \* the committed rows of table mxbc_call
    import_logs,   \* the committed rows of table import_logs
    ops,           \* the store calls of this attempt, with their outcome
    issued,        \* the values of every chunk write of this attempt
    tableAtStart,  \* mxbc_call when this attempt was received
    logsAtStart,   \* import_logs when this attempt was received
    committed,     \* connection.commit() succeeded in this attempt
    resubmission,  \* this attempt repeats the rows of the committed one before
    attempts,      \* requests received so far
    prev,          \* the run of the structured handler this upload repeats
    peerPc,        \* where a second, concurrent invocation of importData is
    peerI,         \* its loop index
    peerTx,        \* the rows its open transaction has inserted
    faReq,         \* the fire-and-acknowledge requests, by order of arrival
    faCache,       \* the idempotency cache: when each key was marked
    faNow,         \* the minutes gone by
    users,         \* the rows of table users
    plain,         \* the password each users row was registered with
    registered,    \* the credentials registerUser answered 201 for
    auth,          \* the last call of registerUser or loginUser and its response
    now,           \* Date.now()
    jwt            \* the last token generated and what verifyJWT made of it

vars ==
    << pc, request, rows, i, successCount, error, result, response, conn, inTx,
       txView, mxbc_call, import_logs, ops, issued, tableAtStart, logsAtStart,
       committed, resubmission, attempts, prev, peerPc, peerI, peerTx,
       faReq, faCache, faNow, users, plain, registered, auth, now, jwt >>

local == << rows, i, successCount, error, result >>
store == << conn, inTx, txView, mxbc_call, import_logs >>
history == << tableAtStart, logsAtStart, resubmission, attempts, prev >>

peer == << peerPc, peerI, peerTx >>

fire == << faReq, faCache, faNow >>
imports == << pc, request, local, response, store, ops, issued, committed, history >>

accounts == << users, plain, registered, auth >>
tokens == << now, jwt >>

\* what the handlers of POST /api/import leave alone
aside == << peer, fire, accounts, tokens >>

\* no structured run to compare with
NoPrev == [valid |-> FALSE, ops |-> <<>>, response |-> NoResponse]

InitWith(tb, n) ==
    /\ pc = "idle"
    /\ request = JsonRequest("throws", <<>>)
    /\ rows = <<>>
    /\ i = 0
    /\ successCount = 0
    /\ error = ""
    /\ result = NoResponse
    /\ response = NoResponse
    /\ conn = "none"
    /\ inTx = FALSE
    /\ txView = tb
    /\ mxbc_call = tb
    /\ import_logs = <<>>
    /\ ops = <<>>
    /\ issued = <<>>
    /\ tableAtStart = tb
    /\ logsAtStart = <<>>
    /\ committed = FALSE
    /\ resubmission = FALSE
    /\ attempts = n
    /\ prev = NoPrev
    /\ peerPc = "idle"
    /\ peerI = 0
    /\ peerTx = <<>>
    /\ faReq = [r \in 1..MaxFaRequests |-> NoFaRequest]
    /\ faCache = [k \in FaKeys |-> Unmarked]
    /\ faNow = 0
    /\ users = <<>>
    /\ plain = <<>>
    /\ registered = {}
    /\ auth = NoCall
    /\ now = 0
    /\ jwt = NoVerification

\* no request handled yet
Init == \E tb \in TablesBefore : InitWith(tb, 0)

\* the last request of a run is a long one
InitChunks == \E tb \in TablesBefore : InitWith(tb, MaxAttempts - 1)

-----------------------------------------------------------------------------
(* fetch: dispatch of one request *)

Respond(r) == /\ response' = r
              /\ pc' = "done"

Call(name, ok) == ops' = Append(ops, <<name, ok>>)

\* fetch receives a request once the previous one has been answered
Receive(req) ==
    /\ pc \in {"idle", "done"}
    /\ attempts < MaxAttempts
    /\ attempts' = attempts + 1
    /\ request' = req
    /\ resubmission' = (committed /\ req = request)
    /\ tableAtStart' = mxbc_call
    /\ logsAtStart' = import_logs
    /\ rows' = <<>>
    /\ i' = 0
    /\ successCount' = 0
    /\ error' = ""
    /\ result' = NoResponse
    /\ committed' = FALSE
    /\ ops' = <<>>
    /\ issued' = <<>>
    /\ conn' = "none"
    /\ inTx' = FALSE
    /\ txView' = mxbc_call
    /\ IF req.endpoint = "none"
         THEN Respond(Response(404, "Not Found"))
         ELSE /\ response' = NoResponse
              /\ pc' = "importData"
    /\ UNCHANGED << mxbc_call, import_logs, aside >>

\* a request of its own
Fetch(req) ==
    /\ Receive(req)
    /\ prev' = NoPrev

\* the sheet with every required header that carries the records rs
SheetOf(rs) ==
    <<FullHeader>> \o
    [j \in 1..Len(rs) |->
        [k \in 1..Len(localizedFields) |-> rs[j][fieldMapping[localizedFields[k]]]]]

\* the caller uploads the records of the answered structured request as a sheet
FetchTwin ==
    /\ request.endpoint = "json"
    /\ request.parse = "ok"
    /\ \A j \in 1..Len(request.rows) : DOMAIN request.rows[j] = Fields
    /\ pc = "done"
    /\ Receive(SheetRequest("ok", SheetOf(request.rows)))
    /\ prev' = [valid |-> TRUE, ops |-> ops, response |-> response]

-----------------------------------------------------------------------------
(* importData up to the first store call *)

\* structured handler, lines 39-72
ValidateJson ==
    /\ pc = "importData"
    /\ request.endpoint = "json"
    /\ CASE request.parse = "throws" ->
              /\ Respond(InternalServerError)
              /\ UNCHANGED rows
         [] request.parse = "notArray" \/ Len(request.rows) = 0 ->
              /\ Respond(Response(400, "Missing or invalid data"))
              /\ UNCHANGED rows
         [] OTHER ->
              /\ rows' = request.rows
              /\ IF MissingRequiredField(request.rows) # ""
                   THEN Respond(Response(400, "Missing required field: "
                                               \o MissingRequiredField(request.rows)))
                   ELSE /\ pc' = "createConnection"
                        /\ UNCHANGED response
    /\ UNCHANGED << request, i, successCount, error, result, store, ops, issued,
                    committed, history, aside >>

\* spreadsheet handler, lines 202-274
ValidateSheet ==
    /\ pc = "importData"
    /\ request.endpoint = "sheet"
    /\ CASE request.parse = "throws" ->
              /\ Respond(InternalServerError)
              /\ UNCHANGED rows
         [] request.parse = "noFile" ->
              /\ Respond(Response(400, "Missing file"))
              /\ UNCHANGED rows
         [] request.parse = "ok" /\ Len(request.jsonData) = 0 ->
              \* headers is undefined: headers.includes throws
              /\ Respond(InternalServerError)
              /\ UNCHANGED rows
         [] OTHER ->
              IF MissingHeader(request.jsonData[1]) # ""
                THEN /\ Respond(Response(400, "Missing required field: "
                                              \o MissingHeader(request.jsonData[1])))
                     /\ UNCHANGED rows
                ELSE /\ rows' = ProjectRows(request.jsonData)
                     /\ pc' = "createConnection"
                     /\ UNCHANGED response
    /\ UNCHANGED << request, i, successCount, error, result, store, ops, issued,
                    committed, history, aside >>

-----------------------------------------------------------------------------
(* importData: the store calls, lines 75-160 and 277-362 *)

\* await createConnection(...)
CreateConnection(ok) ==
    /\ pc = "createConnection"
    /\ Call("createConnection", ok)
    /\ IF ok
         THEN /\ conn' = "open"
              /\ pc' = "beginTransaction"
              /\ UNCHANGED response
         ELSE /\ Respond(InternalServerError)
              /\ UNCHANGED conn
    /\ UNCHANGED << request, local, inTx, txView, mxbc_call, import_logs, issued,
                    committed, history, aside >>

\* await connection.beginTransaction(); a throw reaches the outer catch,
\* which is outside the try ... finally that ends the connection
BeginTransaction(ok) ==
    /\ pc = "beginTransaction"
    /\ Call("beginTransaction", ok)
    /\ IF ok
         THEN /\ inTx' = TRUE
              /\ txView' = mxbc_call
              /\ pc' = "loop"
              /\ UNCHANGED response
         ELSE /\ Respond(InternalServerError)
              /\ UNCHANGED << inTx, txView >>
    /\ UNCHANGED << request, local, conn, mxbc_call, import_logs, issued,
                    committed, history, aside >>

\* the mutant of ChunkWrite: the statement is committed as it is executed,
\* as on a connection in autocommit mode
ChunkWriteAutocommit(ok) ==
    /\ pc = "loop"
    /\ i < Len(rows)
    /\ Call("query", ok)
    /\ issued' = Append(issued, BatchValues(Batch(rows, i)))
    /\ IF ok
         THEN /\ txView' = Upsert(txView, BatchValues(Batch(rows, i)))
              /\ mxbc_call' = Upsert(mxbc_call, BatchValues(Batch(rows, i)))
              /\ successCount' = successCount + Len(Batch(rows, i))
              /\ i' = i + batchSize
              /\ UNCHANGED << pc, error >>
         ELSE /\ error' = "Error: query failed"
              /\ pc' = "rollback"
              /\ UNCHANGED << txView, mxbc_call, successCount, i >>
    /\ UNCHANGED << request, rows, result, response, conn, inTx, import_logs,
                    committed, history, aside >>

\* the mutant of ChunkWrite: a failed statement is passed over and the loop
\* goes on with the next chunk
ChunkWriteContinue(ok) ==
    /\ pc = "loop"
    /\ i < Len(rows)
    /\ Call("query", ok)
    /\ issued' = Append(issued, BatchValues(Batch(rows, i)))
    /\ IF ok
         THEN /\ txView' = Upsert(txView, BatchValues(Batch(rows, i)))
              /\ successCount' = successCount + Len(Batch(rows, i))
              /\ i' = i + batchSize
              /\ UNCHANGED << pc, error >>
         ELSE /\ i' = i + batchSize
              /\ UNCHANGED << pc, error, txView, successCount >>
    /\ UNCHANGED << request, rows, result, response, conn, inTx, mxbc_call,
                    import_logs, committed, history, aside >>

\* one iteration of the batch loop: await connection.query(query, flattenedValues)
ChunkWrite(ok) ==
    /\ pc = "loop"
    /\ i < Len(rows)
    /\ Call("query", ok)
    /\ issued' = Append(issued, BatchValues(Batch(rows, i)))
    /\ IF ok
         THEN /\ txView' = Upsert(txView, BatchValues(Batch(rows, i)))
              /\ successCount' = successCount + Len(Batch(rows, i))
              /\ i' = i + batchSize
              /\ UNCHANGED << pc, error >>
         ELSE /\ error' = "Error: query failed"
              /\ pc' = "rollback"
              /\ UNCHANGED << txView, successCount, i >>
    /\ UNCHANGED << request, rows, result, response, conn, inTx, mxbc_call,
                    import_logs, committed, history, aside >>

\* await connection.commit(), after the loop
Commit(ok) ==
    /\ pc = "loop"
    /\ i >= Len(rows)
    /\ Call("commit", ok)
    /\ IF ok
         THEN /\ mxbc_call' = txView
              /\ inTx' = FALSE
              /\ committed' = TRUE
              /\ pc' = "logSuccess"
              /\ UNCHANGED error
         ELSE /\ error' = "Error: commit failed"
              /\ pc' = "rollback"
              /\ UNCHANGED << mxbc_call, inTx, committed >>
    /\ UNCHANGED << request, rows, i, successCount, result, response, conn,
                    txView, import_logs, issued, history, aside >>

\* await connection.execute(logQuery, [tableName, successCount, "success"])
\* and the return of the 200 response; a throw lands in the inner catch
LogSuccess(ok) ==
    /\ pc = "logSuccess"
    /\ Call("execute", ok)
    /\ IF ok
         THEN /\ import_logs' = Append(import_logs, SuccessLog(successCount))
              /\ result' = Response(200, "Successfully imported "
                                          \o ToString(successCount) \o " rows")
              /\ pc' = "end"
              /\ UNCHANGED error
         ELSE /\ error' = "Error: execute failed"
              /\ pc' = "rollback"
              /\ UNCHANGED << import_logs, result >>
    /\ UNCHANGED << request, rows, i, successCount, response, conn, inTx, txView,
                    mxbc_call, issued, committed, history, aside >>

\* the inner catch: await connection.rollback(); a throw leaves the catch
Rollback(ok) ==
    /\ pc = "rollback"
    /\ Call("rollback", ok)
    /\ IF ok
         THEN /\ inTx' = FALSE
              /\ txView' = mxbc_call
              /\ pc' = "logFailed"
              /\ UNCHANGED result
         ELSE /\ result' = Thrown
              /\ pc' = "end"
              /\ UNCHANGED << inTx, txView >>
    /\ UNCHANGED << request, rows, i, successCount, error, response, conn,
                    mxbc_call, import_logs, issued, committed, history, aside >>

\* the inner catch: the failure entry and the return of the 500 response
LogFailed(ok) ==
    /\ pc = "logFailed"
    /\ Call("execute", ok)
    /\ IF ok
         THEN /\ import_logs' = Append(import_logs, FailedLog(error))
              /\ result' = Response(500, "Failed to import data")
         ELSE /\ result' = Thrown
              /\ UNCHANGED import_logs
    /\ pc' = "end"
    /\ UNCHANGED << request, rows, i, successCount, error, response, conn, inTx,
                    txView, mxbc_call, issued, committed, history, aside >>

\* finally: await connection.end(); the server drops a transaction that is
\* still open.  A throw here, or one that left the inner catch, reaches the
\* outer catch.
End(ok) ==
    /\ pc = "end"
    /\ Call("end", ok)
    /\ conn' = IF ok THEN "closed" ELSE "broken"
    /\ inTx' = FALSE
    /\ txView' = mxbc_call
    /\ Respond(IF ok /\ result # Thrown THEN result ELSE InternalServerError)
    /\ UNCHANGED << request, local, mxbc_call, import_logs, issued, committed,
                    history, aside >>

Next ==
    \/ \E req \in Requests : Fetch(req)
    \/ ValidateJson
    \/ ValidateSheet
    \/ \E ok \in BOOLEAN : CreateConnection(ok)
    \/ \E ok \in BOOLEAN : BeginTransaction(ok)
    \/ \E ok \in BOOLEAN : ChunkWrite(ok)
    \/ \E ok \in BOOLEAN : Commit(ok)
    \/ \E ok \in BOOLEAN : LogSuccess(ok)
    \/ \E ok \in BOOLEAN : Rollback(ok)
    \/ \E ok \in BOOLEAN : LogFailed(ok)
    \/ \E ok \in BOOLEAN : End(ok)

Spec == Init /\ [][Next]_vars

NextChunks ==
    \/ \E req \in LargeRequests : Fetch(req)
    \/ ValidateJson
    \/ ValidateSheet
    \/ \E ok \in BOOLEAN : CreateConnection(ok)
    \/ \E ok \in BOOLEAN : BeginTransaction(ok)
    \/ \E ok \in BOOLEAN : ChunkWrite(ok)
    \/ \E ok \in BOOLEAN : Commit(ok)
    \/ \E ok \in BOOLEAN : LogSuccess(ok)
    \/ \E ok \in BOOLEAN : Rollback(ok)
    \/ \E ok \in BOOLEAN : LogFailed(ok)
    \/ \E ok \in BOOLEAN : End(ok)

SpecChunks == InitChunks /\ [][NextChunks]_vars

-----------------------------------------------------------------------------
(* a second invocation of importData, on a connection of its own, that runs
   while the first one does; the store keeps the rows a transaction has
   inserted from every other connection until it commits *)

\* the records the second invocation imports: two chunks, under call ids of
\* their own
PeerRows ==
    [j \in 1..(batchSize + 1) |-> JsonRow(IF j <= batchSize THEN "p1" ELSE "p2", "a")]

\* the rows an insert of vs adds, seen from the second connection
PeerInserted(vs) ==
    LET after == Upsert(mxbc_call \o peerTx, vs)
    IN  SubSeq(after, Len(mxbc_call) + 1, Len(after))

\* lines 39-85: the request is valid, the connection and the transaction open
PeerBegin ==
    /\ peerPc = "idle"
    /\ peerPc' = "loop"
    /\ peerI' = 0
    /\ peerTx' = <<>>
    /\ UNCHANGED << imports, fire, accounts, tokens >>

\* lines 93-127: one iteration of the batch loop
PeerChunkWrite(ok) ==
    /\ peerPc = "loop"
    /\ peerI < Len(PeerRows)
    /\ IF ok
         THEN /\ peerTx' = PeerInserted(BatchValues(Batch(PeerRows, peerI)))
              /\ peerI' = peerI + batchSize
              /\ UNCHANGED peerPc
         ELSE /\ peerPc' = "rollback"
              /\ UNCHANGED << peerI, peerTx >>
    /\ UNCHANGED << imports, fire, accounts, tokens >>

\* line 130: the rows of the transaction become the committed rows, which the
\* insert of any other transaction reads
PeerCommit(ok) ==
    /\ peerPc = "loop"
    /\ peerI >= Len(PeerRows)
    /\ IF ok
         THEN /\ mxbc_call' = mxbc_call \o peerTx
              /\ txView' = txView \o peerTx
              /\ peerTx' = <<>>
              /\ peerPc' = "done"
         ELSE /\ peerPc' = "rollback"
              /\ UNCHANGED << mxbc_call, txView, peerTx >>
    /\ UNCHANGED << pc, request, local, response, conn, inTx, import_logs, ops,
                    issued, committed, history, peerI, fire, accounts, tokens >>

\* lines 140-156: rollback, or the end of the connection, drops the rows
PeerRollback ==
    /\ peerPc = "rollback"
    /\ peerTx' = <<>>
    /\ peerPc' = "done"
    /\ UNCHANGED << imports, peerI, fire, accounts, tokens >>

\* the requests of two chunks, one for either handler
TwoChunkRequests ==
    { JsonRequest("ok", LargeJsonRows(batchSize + 1)),
      SheetRequest("ok", LargeSheet(batchSize + 1)) }

NextConcurrent ==
    \/ \E req \in TwoChunkRequests : Fetch(req)
    \/ ValidateJson
    \/ ValidateSheet
    \/ \E ok \in BOOLEAN : CreateConnection(ok)
    \/ \E ok \in BOOLEAN : BeginTransaction(ok)
    \/ \E ok \in BOOLEAN : ChunkWrite(ok)
    \/ \E ok \in BOOLEAN : Commit(ok)
    \/ \E ok \in BOOLEAN : LogSuccess(ok)
    \/ \E ok \in BOOLEAN : Rollback(ok)
    \/ \E ok \in BOOLEAN : LogFailed(ok)
    \/ \E ok \in BOOLEAN : End(ok)
    \/ PeerBegin
    \/ \E ok \in BOOLEAN : PeerChunkWrite(ok)
    \/ \E ok \in BOOLEAN : PeerCommit(ok)
    \/ PeerRollback

SpecConcurrent == InitChunks /\ [][NextConcurrent]_vars

-----------------------------------------------------------------------------
(* the fire-and-acknowledge endpoint and the idempotency cache *)

\* the mutant of IsFresh: the cache is not consulted
IsFreshAlways(cache, key) == TRUE

\* checkAndMark: the key is fresh when the cache does not hold it
IsFresh(cache, key) == cache[key] = Unmarked

\* a request arrives; a missing key parameter is the empty key
FaArrive(route, key) ==
    /\ \E r \in 1..MaxFaRequests :
          /\ faReq[r].stage = "none"
          /\ \A q \in 1..(r - 1) : faReq[q].stage # "none"
          /\ faReq' = [faReq EXCEPT ![r] =
                          [NoFaRequest EXCEPT
                              !.stage = "received", !.route = route, !.key = key,
                              !.overlaps = \E q \in 1..MaxFaRequests :
                                              faReq[q].stage = "received"]]
    /\ UNCHANGED << imports, peer, faCache, faNow, accounts, tokens >>

\* the handler runs: route and key are checked, checkAndMark is one step,
\* and the success token is returned whether the key was fresh or not
FaHandle(r) ==
    /\ faReq[r].stage = "received"
    /\ IF ~faReq[r].route
         THEN /\ faReq' = [faReq EXCEPT ![r].stage = "answered",
                              ![r].response = Response(405, "Method Not Allowed")]
              /\ UNCHANGED faCache
         ELSE IF faReq[r].key = ""
         THEN /\ faReq' = [faReq EXCEPT ![r].stage = "answered",
                              ![r].response = Response(400, "Missing key")]
              /\ UNCHANGED faCache
         ELSE /\ faReq' = [faReq EXCEPT ![r].stage = "answered",
                              ![r].at = faNow,
                              ![r].fresh = IsFresh(faCache, faReq[r].key),
                              ![r].response = Response(200, "success")]
              /\ faCache' = IF IsFresh(faCache, faReq[r].key)
                              THEN [faCache EXCEPT ![faReq[r].key] = faNow]
                              ELSE faCache
    /\ UNCHANGED << imports, peer, faNow, accounts, tokens >>

\* the persistence step of a request that found its key fresh, after the
\* response; its outcome reaches nobody
FaPersist(r) ==
    /\ faReq[r].stage = "answered"
    /\ faReq[r].fresh
    /\ faReq[r].persisted = 0
    /\ faReq' = [faReq EXCEPT ![r].persisted = 1]
    /\ UNCHANGED << imports, peer, faCache, faNow, accounts, tokens >>

\* the removal scheduled when the key was marked
FaExpire(key) ==
    /\ faCache[key] # Unmarked
    /\ faNow >= faCache[key] + TTL
    /\ faCache' = [faCache EXCEPT ![key] = Unmarked]
    /\ UNCHANGED << imports, peer, faReq, faNow, accounts, tokens >>

\* a minute goes by, once the removals that are due have run
FaTick ==
    /\ faNow < MaxFaMinutes
    /\ \A k \in FaKeys : faCache[k] # Unmarked => faNow < faCache[k] + TTL
    /\ faNow' = faNow + 1
    /\ UNCHANGED << imports, peer, faReq, faCache, accounts, tokens >>

NextFireAck ==
    \/ \E route \in BOOLEAN : \E key \in FaKeys \cup {""} : FaArrive(route, key)
    \/ \E r \in 1..MaxFaRequests : FaHandle(r)
    \/ \E r \in 1..MaxFaRequests : FaPersist(r)
    \/ \E key \in FaKeys : FaExpire(key)
    \/ FaTick

SpecFireAck == Init /\ [][NextFireAck]_vars

-----------------------------------------------------------------------------
(* index.ts: registerUser and loginUser *)

\* what can throw in a handler: request.json(), createConnection,
\* connection.execute, connection.end
Failures == {"none", "json", "createConnection", "execute", "end"}

\* SELECT id, username, password_hash FROM users WHERE username = ?
SelectUser(username) == SelectSeq(users, LAMBDA u : u.username = username)

Answer(handler, username, password, fails, resp) ==
    auth' = [handler |-> handler, username |-> username, password |-> password,
             fails |-> fails, response |-> resp]

\* registerUser; username is the unique key of users, so the INSERT of a
\* username that is there throws; a row inserted stays when end() throws
registerUser(username, password, fails) ==
    LET inserts == /\ fails \in {"none", "end"}
                   /\ username # "" /\ password # ""
                   /\ SelectUser(username) = <<>>
    IN  /\ users' = IF inserts
                       THEN Append(users, [id |-> Len(users) + 1, username |-> username,
                                           password_hash |-> hashPassword(password)])
                       ELSE users
        /\ plain' = IF inserts THEN Append(plain, password) ELSE plain
        /\ registered' = IF inserts /\ fails = "none"
                            THEN registered \cup {<<username, password>>}
                            ELSE registered
        /\ Answer("registerUser", username, password, fails,
                  IF fails = "json" THEN AuthResponse(500, "Internal Server Error", NoToken)
                  ELSE IF username = "" \/ password = ""
                    THEN AuthResponse(400, "Missing username or password", NoToken)
                  ELSE IF inserts /\ fails = "none"
                    THEN AuthResponse(201, "User registered successfully", NoToken)
                  ELSE AuthResponse(500, "Internal Server Error", NoToken))
        /\ UNCHANGED << imports, peer, fire, tokens >>

\* loginUser
loginUser(username, password, fails) ==
    LET rows_ == SelectUser(username)
    IN  /\ Answer("loginUser", username, password, fails,
                  IF fails = "json" THEN AuthResponse(500, "Internal Server Error", NoToken)
                  ELSE IF username = "" \/ password = ""
                    THEN AuthResponse(400, "Missing username or password", NoToken)
                  ELSE IF fails # "none"
                    THEN AuthResponse(500, "Internal Server Error", NoToken)
                  ELSE IF Len(rows_) = 0
                    THEN AuthResponse(401, "Invalid username or password", NoToken)
                  ELSE IF hashPassword(password) # rows_[1].password_hash
                    THEN AuthResponse(401, "Invalid username or password", NoToken)
                  ELSE AuthResponse(200, "token",
                                    generateJWT([userId |-> rows_[1].id], Secrets[1], now)))
        /\ UNCHANGED << imports, peer, fire, users, plain, registered, tokens >>

\* half an hour goes by
Tick ==
    /\ now < MaxHalfHours * HalfHour
    /\ now' = now + HalfHour
    /\ UNCHANGED << imports, peer, fire, accounts, jwt >>

NextAuth ==
    \/ \E u \in Usernames : \E p \in Passwords : \E f \in Failures :
          registerUser(u, p, f)
    \/ \E u \in Usernames : \E p \in Passwords : \E f \in Failures :
          loginUser(u, p, f)
    \/ Tick

SpecAuth == Init /\ [][NextAuth]_vars

\* the payloads tokens are generated for
Payloads == {[userId |-> 1], [userId |-> 2]}

\* generateJWT(payload, secret) is called
Generate(payload, secret) ==
    /\ jwt' = [payload |-> [userId |-> payload.userId, exp |-> 0], secret |-> secret,
               token |-> generateJWT(payload, secret, now), with |-> "", at |-> 0,
               result |-> Verified("none", NoPayload)]
    /\ UNCHANGED << imports, peer, fire, accounts, now >>

\* verifyJWT(token, secret) is called on the token generated last
Verify(secret) ==
    /\ jwt.secret # ""
    /\ jwt' = [jwt EXCEPT !.with = secret, !.at = now,
                          !.result = verifyJWT(jwt.token, secret, now)]
    /\ UNCHANGED << imports, peer, fire, accounts, now >>

NextTokens ==
    \/ \E payload \in Payloads : \E k \in 1..Len(Secrets) : Generate(payload, Secrets[k])
    \/ \E k \in 1..Len(Secrets) : Verify(Secrets[k])
    \/ Tick

SpecTokens == Init /\ [][NextTokens]_vars

\* the awaited connection.query or connection.commit never settles: neither
\* call is given a timeout and nothing else resumes the handler
Pending ==
    /\ pc = "loop"
    /\ pc' = "pending"
    /\ UNCHANGED << request, local, response, store, ops, issued, committed,
                    history, aside >>

NextPending ==
    \/ Next
    \/ Pending

\* the runtime runs every continuation whose awaited call has settled, and
\* takes the requests that arrive
SpecPending == Init /\ [][NextPending]_vars /\ WF_vars(NextPending)

\* the record sets both endpoints are given: every field a non-empty string
CanonicalRequests ==
    {JsonRequest("ok", rs) : rs \in SeqsUpTo({JsonRow("1", "a"), JsonRow("2", "b")}, MaxRows)}

NextTwin ==
    \/ \E req \in CanonicalRequests : Fetch(req)
    \/ FetchTwin
    \/ ValidateJson
    \/ ValidateSheet
    \/ \E ok \in BOOLEAN : CreateConnection(ok)
    \/ \E ok \in BOOLEAN : BeginTransaction(ok)
    \/ \E ok \in BOOLEAN : ChunkWrite(ok)
    \/ \E ok \in BOOLEAN : Commit(ok)
    \/ \E ok \in BOOLEAN : LogSuccess(ok)
    \/ \E ok \in BOOLEAN : Rollback(ok)
    \/ \E ok \in BOOLEAN : LogFailed(ok)
    \/ \E ok \in BOOLEAN : End(ok)

SpecTwin == Init /\ [][NextTwin]_vars

-----------------------------------------------------------------------------
(* Properties *)

\* the store call name was made in this attempt and ended ok
Called(name, ok) == \E k \in 1..Len(ops) : ops[k] = <<name, ok>>

CeilDiv(n, c) == (n + c - 1) \div c

\* the number of records a request submits
Submitted ==
    IF request.endpoint = "json" THEN Len(request.rows)
    ELSE Len(request.jsonData) - 1

\* C1: once a chunk write has failed, mxbc_call holds what it held when the
\* attempt began, also when earlier chunk writes of the attempt had
\* succeeded, and once the handler has responded no transaction is left open.
C1_Atomicity ==
    Called("query", FALSE) =>
        /\ mxbc_call = tableAtStart
        /\ pc = "done" => (~inTx /\ txView = mxbc_call)

\* the second chunk write failed after the first had inserted a new row
C1_Witness ==
    /\ pc = "done"
    /\ Called("query", FALSE)
    /\ Len(issued) >= 2
    /\ \E k \in 1..Len(issued[1]) :
          \A n \in 1..Len(tableAtStart) : ~Collides(tableAtStart[n], InsertRow(issued[1][k]))

\* C2: an import answered 200 has issued ceil(N / batchSize) chunk writes,
\* chunk c holding records (c-1)*batchSize + 1 .. min(c*batchSize, N) in
\* input order, and reports N in the response text and in the one audit
\* entry it appended.
C2_ChunkCount ==
    (pc = "done" /\ response.status = 200) =>
        LET n == Submitted
        IN  /\ Len(rows) = n
            /\ Len(issued) = CeilDiv(n, batchSize)
            /\ \A c \in 1..Len(issued) :
                  /\ Len(issued[c]) = Min(batchSize, n - (c - 1) * batchSize)
                  /\ \A k \in 1..Len(issued[c]) :
                        issued[c][k] = Values(rows[(c - 1) * batchSize + k])
            /\ response.body = "Successfully imported " \o ToString(n) \o " rows"
            /\ import_logs = Append(logsAtStart, SuccessLog(n))

\* three chunk writes, and more records reported than rows added
C2_Witness ==
    /\ pc = "done"
    /\ response.status = 200
    /\ Len(issued) = MaxChunks
    /\ Len(mxbc_call) - Len(tableAtStart) < Len(rows)

\* a structured request some row of which lacks a required field
JsonLacksField ==
    /\ request.endpoint = "json"
    /\ request.parse = "ok"
    /\ \E j \in 1..Len(request.rows) : ~(Fields \subseteq DOMAIN request.rows[j])

\* f is the first missing field of the first row of rs that lacks one
IsFirstMissing(rs, f) ==
    \E j \in 1..Len(rs), k \in 1..Len(requiredFields) :
        /\ \A m \in 1..(j - 1) : Fields \subseteq DOMAIN rs[m]
        /\ requiredFields[k] = f
        /\ f \notin DOMAIN rs[j]
        /\ \A m \in 1..(k - 1) : requiredFields[m] \in DOMAIN rs[j]

\* C3: a structured request with a row that lacks a required field makes no
\* store call, changes no table and is answered 400 with the first missing
\* field of the first offending row.
C3_JsonRejected ==
    JsonLacksField =>
        /\ ops = <<>>
        /\ conn = "none"
        /\ ~inTx
        /\ issued = <<>>
        /\ import_logs = logsAtStart
        /\ mxbc_call = tableAtStart
        /\ pc = "done" =>
              /\ response.status = 400
              /\ \E f \in Fields :
                    /\ IsFirstMissing(request.rows, f)
                    /\ response.body = "Missing required field: " \o f

\* the second row is the offending one and lacks two fields
C3_Witness ==
    /\ pc = "done"
    /\ JsonLacksField
    /\ Len(request.rows) = 2
    /\ Fields \subseteq DOMAIN request.rows[1]
    /\ {"call_id", "province"} \cap DOMAIN request.rows[2] = {}
    /\ response = Response(400, "Missing required field: call_id")

\* C4: a structured request that repeats the request of the committed
\* attempt before it leaves mxbc_call as that attempt left it.
C4_Idempotent ==
    (resubmission /\ request.endpoint = "json") => mxbc_call = tableAtStart

\* the repeated import committed too
C4_Witness ==
    /\ pc = "done"
    /\ resubmission
    /\ request.endpoint = "json"
    /\ committed
    /\ response.status = 200
    /\ mxbc_call # <<>>

\* C5: after a committed import answered 200 every submitted record (the
\* last one of its call_id) is a row of mxbc_call, and the only row of that
\* call_id.
C5_UpsertUpdatesInPlace ==
    (pc = "done" /\ committed /\ response.status = 200) =>
        \A k \in 1..Len(rows) :
            LET r == StoredRow(rows[k])
            IN  ( /\ r.call_id.t # "null"
                  /\ \A j \in (k + 1)..Len(rows) : StoredRow(rows[j]).call_id # r.call_id )
                => /\ Cardinality({n \in 1..Len(mxbc_call) : mxbc_call[n].call_id = r.call_id}) = 1
                   /\ \E n \in 1..Len(mxbc_call) : mxbc_call[n] = r

\* C6: when rollback and end do not fail, the outcome of the audit insert
\* does not change the response: 200 with the count after a commit, 500
\* after a rollback.
C6_AuditFailureNotMasking ==
    (pc = "done" /\ ~Called("rollback", FALSE) /\ ~Called("end", FALSE)) =>
        /\ committed =>
              response = Response(200, "Successfully imported "
                                        \o ToString(Len(rows)) \o " rows")
        /\ (~committed /\ Called("rollback", TRUE)) => response.status = 500

\* a store call of the attempt failed
StoreFailure ==
    \/ Called("createConnection", FALSE)
    \/ Called("beginTransaction", FALSE)
    \/ Called("query", FALSE)
    \/ Called("commit", FALSE)

\* C7: an attempt in which connecting, beginning, a chunk write or the
\* commit failed has called rollback, is answered 5xx and has appended a
\* failed entry carrying the error text.
C7_StoreFailureHandled ==
    (pc = "done" /\ StoreFailure) =>
        /\ \E ok \in BOOLEAN : Called("rollback", ok)
        /\ response.status >= 500
        /\ error # ""
        /\ import_logs = Append(logsAtStart, FailedLog(error))

\* C8: import_logs only grows, and an attempt that passed validation has
\* appended exactly one entry by the time it responds.
C8_OneAuditEntry ==
    /\ Len(import_logs) >= Len(logsAtStart)
    /\ SubSeq(import_logs, 1, Len(logsAtStart)) = logsAtStart
    /\ (pc = "done" /\ ops # <<>>) => Len(import_logs) = Len(logsAtStart) + 1

\* C9: every record of a chunk write has a string in each of the 16 columns,
\* and every record the spreadsheet handler projects has all 16 fields.
C9_AllFieldsPresent ==
    /\ \A c \in 1..Len(issued) : \A k \in 1..Len(issued[c]) :
          \A m \in 1..Len(columns) : issued[c][k][m].t = "string"
    /\ request.endpoint = "sheet" =>
          \A j \in 1..Len(rows) : DOMAIN rows[j] = Fields

\* an upload whose header row lacks a required localized header
SheetLacksHeader ==
    /\ request.endpoint = "sheet"
    /\ request.parse = "ok"
    /\ Len(request.jsonData) >= 1
    /\ \E k \in 1..Len(localizedFields) :
          \A m \in 1..Len(request.jsonData[1]) :
              request.jsonData[1][m] # Str(localizedFields[k])

\* C10: an upload whose header row lacks a required localized header makes
\* no store call, projects no data row, changes no table and is answered 400
\* with a localized header the row lacks.
C10_SheetRejected ==
    SheetLacksHeader =>
        /\ ops = <<>>
        /\ conn = "none"
        /\ ~inTx
        /\ rows = <<>>
        /\ issued = <<>>
        /\ import_logs = logsAtStart
        /\ mxbc_call = tableAtStart
        /\ pc = "done" =>
              /\ response.status = 400
              /\ \E k \in 1..Len(localizedFields) :
                    /\ \A m \in 1..Len(request.jsonData[1]) :
                          request.jsonData[1][m] # Str(localizedFields[k])
                    /\ response.body = "Missing required field: " \o localizedFields[k]

\* the header row lacks sheng and a data row follows it
C10_Witness ==
    /\ pc = "done"
    /\ SheetLacksHeader
    /\ Len(request.jsonData) >= 2
    /\ response = Response(400, "Missing required field: sheng")

\* the store answers the calls of this run as it answered the structured run
SameStoreBehaviour ==
    \A k \in 1..Min(Len(ops), Len(prev.ops)) : ops[k][2] = prev.ops[k][2]

\* the store calls made so far are the first ones of the structured run
FollowsPrev ==
    /\ Len(ops) <= Len(prev.ops)
    /\ ops = SubSeq(prev.ops, 1, Len(ops))

\* C11: the spreadsheet endpoint answers a record set as the structured
\* endpoint does: when the same records, of any number, are uploaded as a
\* sheet with every required header and the store answers call by call as it
\* did for the structured request, the same store calls are made and the same
\* status and body are returned
C11_SheetRefinesJson ==
    (prev.valid /\ SameStoreBehaviour)
        => /\ FollowsPrev
           /\ pc = "done" => (ops = prev.ops /\ response = prev.response)

\* the same holds of the record sets that hold a record
C11_NonEmptySetsAgree ==
    (prev.valid /\ SameStoreBehaviour /\ Len(request.jsonData) > 1)
        => /\ FollowsPrev
           /\ pc = "done" => (ops = prev.ops /\ response = prev.response)

\* the places in ops of the chunk writes
QueryCalls == {k \in 1..Len(ops) : ops[k][1] = "query"}

\* C13: the chunk writes of an attempt go out in input order, the c-th write
\* carrying the c-th run of batchSize records, so none goes out twice; a
\* write goes out only when every write before it succeeded, so none follows
\* a failed one
C13_ChunksInOrder ==
    /\ Cardinality(QueryCalls) = Len(issued)
    /\ Len(issued) <= CeilDiv(Len(rows), batchSize)
    /\ \A c \in 1..Len(issued) :
          issued[c] = [k \in 1..Min(batchSize, Len(rows) - (c - 1) * batchSize) |->
                          Values(rows[(c - 1) * batchSize + k])]
    /\ \A k \in QueryCalls : \A m \in QueryCalls : k < m => ops[k][2]

\* the second of three chunk writes failed and the attempt was answered
C13_Witness ==
    /\ pc = "done"
    /\ Len(rows) > 2 * batchSize
    /\ Len(issued) = 2
    /\ \E k \in QueryCalls : \E m \in QueryCalls : k < m /\ ops[k][2] /\ ~ops[m][2]

\* the attempt entered Upserting: its transaction began
EnteredUpserting == Called("beginTransaction", TRUE)

\* C14: an attempt that entered Upserting is answered after exactly one of
\* commit (Committed) and rollback (RolledBack), never issuing a rollback
\* once its commit succeeded, and its last two store calls are the audit
\* insert (Logged) and then the end of the connection before the response
\* (Responded); stated for the attempts whose rollback and connection end,
\* when issued, do not fail themselves
C14_StateMachine ==
    /\ \A k \in 1..Len(ops) : \A m \in 1..Len(ops) :
          (k < m /\ ops[k] = <<"commit", TRUE>>) => ops[m][1] # "rollback"
    /\ (pc = "done" /\ EnteredUpserting
            /\ ~Called("rollback", FALSE) /\ ~Called("end", FALSE)) =>
          /\ Called("commit", TRUE) # (\E k \in 1..Len(ops) : ops[k][1] = "rollback")
          /\ Len(ops) >= 2
          /\ ops[Len(ops) - 1][1] = "execute"
          /\ ops[Len(ops)][1] = "end"

\* the number of connection.end() calls of this attempt
EndCalls == Cardinality({k \in 1..Len(ops) : ops[k][1] = "end"})

\* C17: an attempt that acquired a connection has called connection.end()
\* exactly once when it is answered, whatever store call failed
C17_ConnectionReleased ==
    (pc = "done" /\ Called("createConnection", TRUE)) => EndCalls = 1

\* the audit entries this attempt appended
Appended == SubSeq(import_logs, Len(logsAtStart) + 1, Len(import_logs))

\* C18: an audit entry with status failed and rows_imported 0 belongs to an
\* attempt that committed no row, and an entry with status success and
\* rows_imported n to an attempt whose transaction committed all its n records
C18_AuditAgreesWithStore ==
    \A k \in 1..Len(Appended) :
        /\ (Appended[k].status = "failed" /\ Appended[k].rows_imported = 0)
              => ~(committed /\ Len(rows) > 0)
        /\ Appended[k].status = "success"
              => (committed /\ Appended[k].rows_imported = Len(rows))

\* C16: an attempt whose chunk write or commit never completes is still
\* answered: the wait times out, the attempt fails, rolls back and responds
C16_PendingCallTimesOut == (pc = "pending") ~> (pc = "done")

\* the call ids of the rows of a table
CallIds(tb) == {tb[k].call_id : k \in 1..Len(tb)}

\* the call ids an import of rs adds to a table that held tb
NewCallIds(rs, tb) ==
    {SqlEscape(Get(rs[j], "call_id")) : j \in 1..Len(rs)} \ (CallIds(tb) \cup {Null})

\* what a reader of the committed table sees of a set of call ids
Seen(ids) == ids \cap CallIds(mxbc_call)

\* C15: at every point of every interleaving of two import attempts, a reader
\* of mxbc_call sees of each attempt either every row it newly inserts or
\* none: never the rows of one chunk without the rows of the others
C15_AllOrNothingVisible ==
    /\ LET new == NewCallIds(rows, tableAtStart) IN Seen(new) \in {{}, new}
    /\ LET new == NewCallIds(PeerRows, tableAtStart) IN Seen(new) \in {{}, new}

\* both attempts have written their first chunk, neither has committed, and
\* the reader sees no row of either
C15_Witness ==
    /\ pc = "loop" /\ i = batchSize /\ Len(rows) > batchSize
    /\ peerPc = "loop" /\ peerI = batchSize
    /\ Cardinality(NewCallIds(rows, tableAtStart)) = 2
    /\ Seen(NewCallIds(rows, tableAtStart)) = {}
    /\ Seen(NewCallIds(PeerRows, tableAtStart)) = {}

\* two answered requests that carried the same key less than TTL apart
SameKeyInWindow(r, q) ==
    /\ r # q
    /\ faReq[r].stage = "answered" /\ faReq[q].stage = "answered"
    /\ faReq[r].route /\ faReq[q].route
    /\ faReq[r].key # "" /\ faReq[r].key = faReq[q].key
    /\ faReq[r].at <= faReq[q].at /\ faReq[q].at < faReq[r].at + TTL

\* C12: two fire-and-acknowledge requests with the same key inside the TTL
\* window, one after the other or overlapping, both receive the success
\* token, at most one of them finds the key fresh, and the persistence step
\* runs at most once for the two
C12_Deduplication ==
    \A r \in 1..MaxFaRequests : \A q \in 1..MaxFaRequests :
        SameKeyInWindow(r, q) =>
            /\ faReq[r].response = Response(200, "success")
            /\ faReq[q].response = Response(200, "success")
            /\ ~(faReq[r].fresh /\ faReq[q].fresh)
            /\ faReq[r].persisted + faReq[q].persisted <= 1

\* two requests with the same key, the second arriving while the first was
\* not yet handled, are both answered and the persistence step has run
C12_Witness ==
    \E r \in 1..MaxFaRequests : \E q \in 1..MaxFaRequests :
        /\ SameKeyInWindow(r, q)
        /\ faReq[q].overlaps
        /\ faReq[r].fresh
        /\ faReq[r].persisted = 1

\* the users row of a username, and the password it was registered with
HasRow(username) == \E k \in 1..Len(users) : users[k].username = username
PlainOf(username) == plain[CHOOSE k \in 1..Len(users) : users[k].username = username]

\* C19: loginUser answers 200 with a token only when a users row of the
\* submitted username exists and the submitted password is the one the row
\* was registered with; a missing username or password gives 400, an unknown
\* username and a wrong password the same 401, a failure of the store 500,
\* none of them with a token; and the credentials registerUser accepted log in
C19_LoginIssuesToken ==
    auth.handler = "loginUser" =>
        LET u == auth.username
            p == auth.password
            matches == HasRow(u) /\ PlainOf(u) = p
        IN  /\ auth.response.status \in {200, 400, 401, 500}
            /\ auth.response.status = 200 =>
                  (matches /\ auth.response.token # NoToken
                     /\ ParseAtob(auth.response.token.payload).userId
                           = (CHOOSE k \in 1..Len(users) : users[k].username = u))
            /\ auth.response.status # 200 => auth.response.token = NoToken
            /\ (auth.fails # "json" /\ (u = "" \/ p = ""))
                  => auth.response = AuthResponse(400, "Missing username or password", NoToken)
            /\ (auth.fails = "none" /\ u # "" /\ p # "" /\ ~matches)
                  => auth.response = AuthResponse(401, "Invalid username or password", NoToken)
            /\ (auth.fails \notin {"none", "json"} /\ u # "" /\ p # "")
                  => auth.response = AuthResponse(500, "Internal Server Error", NoToken)
            /\ (auth.fails = "none" /\ <<u, p>> \in registered)
                  => auth.response.status = 200

\* bob, registered after ann, has logged in with his password and got a token
C19_Witness ==
    /\ auth.handler = "loginUser"
    /\ auth.username = "bob"
    /\ <<"bob", auth.password>> \in registered
    /\ Len(users) = 2
    /\ auth.response.status = 200
    /\ auth.response.token # NoToken

\* C20: verifyJWT, given the token generateJWT made for a payload and called
\* with the same secret no later than the token's expiry, returns a payload
\* with the fields of that payload; called with another secret, or after the
\* expiry, it rejects the token
C20_TokenRoundTrip ==
    jwt.result.outcome # "none" =>
        LET exp == ParseAtob(jwt.token.payload).exp
        IN  /\ (jwt.with = jwt.secret /\ jwt.at <= exp)
                  => /\ jwt.result.outcome = "payload"
                     /\ jwt.result.payload.userId = jwt.payload.userId
            /\ (jwt.with # jwt.secret \/ exp < jwt.at)
                  => jwt.result.outcome \in {"Invalid token", "Token expired"}

====
